---- MODULE Spec2Model ----
(***************************************************************************)
(* Model of get_reaction_users.py: a command-line program that lists the   *)
(* users who reacted with a given emoji to a Slack message.                *)
(*                                                                         *)
(* Python strings on which the program performs character operations (the  *)
(* permalink, the channel id and the timestamp) are sequences of           *)
(* one-character strings.  Strings the program only compares or prints     *)
(* (reaction names, user ids, profile names, error codes) are TLA+ strings.*)
(* An optional value (None or a value) is a record [given, v].             *)
(***************************************************************************)
EXTENDS Naturals, Sequences, FiniteSets

\* ------------------------------------------------------------------ bounds

\* Largest number of '/'-separated segments that follow the permalink prefix.
MaxSegs == 2
\* Largest number of reaction entries attached to a fetched message.
MaxReactions == 2
\* Largest number of users attached to one reaction entry.
MaxUsers == 2

\* ------------------------------------------------- program constants

\* ts_digits[:10] / ts_digits[10:]
TS_SPLIT == 10

\* ---------------------------------------------------------- text helpers

None == [given |-> FALSE, v |-> <<>>]
Some(x) == [given |-> TRUE, v |-> x]

Digits == {"0", "1", "2", "3", "4", "5", "6", "7", "8", "9"}

\* s[:n]
Take(s, n) == SubSeq(s, 1, IF n < Len(s) THEN n ELSE Len(s))
\* s[n:]
Drop(s, n) == SubSeq(s, n + 1, Len(s))

\* index of the first occurrence of character c in s, 0 when there is none
RECURSIVE IndexOf(_, _, _)
IndexOf(s, c, i) ==
    IF i > Len(s) THEN 0
    ELSE IF s[i] = c THEN i
    ELSE IndexOf(s, c, i + 1)

\* str.split(sep) for a one-character separator
RECURSIVE Split(_, _)
Split(s, sep) ==
    LET i == IndexOf(s, sep, 1)
    IN  IF i = 0 THEN <<s>>
        ELSE <<SubSeq(s, 1, i - 1)>> \o Split(Drop(s, i), sep)

\* str.startswith(c) for a one-character prefix
StartsWith(p, c) == Len(p) > 0 /\ p[1] = c

\* sep.join(parts)
RECURSIVE Join(_, _)
Join(parts, sep) ==
    IF parts = <<>> THEN <<>>
    ELSE IF Len(parts) = 1 THEN parts[1]
    ELSE parts[1] \o <<sep>> \o Join(Tail(parts), sep)

\* ------------------------------------------------------- parse_slack_url

InvalidUrlFormat == "Invalid Slack message URL format"

\* a parser that forgets to discard the query string
BaseUrlKeepQuery(url) == url

\* base_url = url.split("?")[0]
BaseUrl(url) == Split(url, "?")[1]

\* parse_slack_url(url): [ok, channel_id, timestamp, error]
parse_slack_url(url) ==
    LET base_url == BaseUrl(url)
        parts == Split(base_url, "/")
        cs == SelectSeq(parts, LAMBDA p : StartsWith(p, "C"))
        ps == SelectSeq(parts, LAMBDA p : StartsWith(p, "p"))
    IN  IF cs = <<>> \/ ps = <<>>
        THEN [ok |-> FALSE, channel_id |-> <<>>, timestamp |-> <<>>,
              error |-> InvalidUrlFormat]
        ELSE LET ts_digits == Tail(ps[1])
                 timestamp == Take(ts_digits, TS_SPLIT) \o <<".">>
                              \o Drop(ts_digits, TS_SPLIT)
             IN  [ok |-> TRUE, channel_id |-> cs[1], timestamp |-> timestamp,
                  error |-> ""]

\* ------------------------------------------------------- input domains

SEG_https ==
    <<"h", "t", "t", "p", "s", ":">>
SEG_empty ==
    <<>>
SEG_host ==
    <<"w", "s", ".", "s", "l", "a", "c", "k", ".", "c", "o", "m">>
SEG_host_p ==
    <<"p", "w", "s", ".", "s", "l", "a", "c", "k", ".", "c", "o", "m">>
SEG_host_C ==
    <<"C", "o", "r", "p", ".", "s", "l", "a", "c", "k", ".", "c", "o", "m">>
SEG_archives ==
    <<"a", "r", "c", "h", "i", "v", "e", "s">>
SEG_channel ==
    <<"C", "0", "1", "2", "3", "4", "5", "6", "7", "8", "9">>
SEG_channel2 ==
    <<"C", "A", "B", "C">>
SEG_ts ==
    <<"p", "1", "2", "3", "4", "5", "6", "7", "8", "9", "0", "1", "2", "3", "4", "5", "6">>
SEG_ts_short ==
    <<"p", "1", "2", "3">>
QUERY_thread ==
    <<"t", "h", "r", "e", "a", "d", "_", "t", "s", "=", "1", "2", "3", "4", "5", "6", "7", "8", "9", "0", ".", "1", "2", "3", "4", "5", "6">>
QUERY_path ==
    <<"x", "=", "/", "C", "Q", "/", "p", "1">>
TS_valid ==
    <<"1", "1", "1", "1", "1", "1", "1", "1", "1", "1", ".", "0", "0", "0", "0", "0", "1">>
TS_bad ==
    <<"1", "2", "3">>
CH_arg ==
    <<"C", "9">>

\* all sequences over S of length at most n
SeqsUpTo(S, n) == UNION {[1..k -> S] : k \in 0..n}

\* a permalink: the segments of its scheme and host (prefix), the segments of
\* its path, and its optional query string
Prefixes ==
    { <<>>,
      <<SEG_https, SEG_empty, SEG_host>>,
      <<SEG_https, SEG_empty, SEG_host_p>>,
      <<SEG_https, SEG_empty, SEG_host_C>> }
SegVocab ==
    {SEG_channel, SEG_channel2, SEG_ts, SEG_ts_short, SEG_archives, SEG_empty}
Queries == {None, Some(QUERY_thread), Some(QUERY_path)}
Permalinks ==
    { [prefix |-> p, path |-> t, query |-> q] :
        p \in Prefixes, t \in SeqsUpTo(SegVocab, MaxSegs), q \in Queries }

NoPermalink == [prefix |-> <<>>, path |-> <<>>, query |-> None]

\* the text of a permalink
UrlText(pl) ==
    Join(pl.prefix \o pl.path, "/") \o (IF pl.query.given THEN <<"?">> \o pl.query.v ELSE <<>>)

UrlPrefix == <<SEG_https, SEG_empty, SEG_host>>
DocPermalink ==
    [prefix |-> UrlPrefix, path |-> <<SEG_archives, SEG_channel, SEG_ts>>,
     query |-> None]
ThreadPermalink == [DocPermalink EXCEPT !.query = Some(QUERY_thread)]
ShortTsPermalink ==
    [prefix |-> UrlPrefix, path |-> <<SEG_archives, SEG_channel, SEG_ts_short>>,
     query |-> None]
NoTsPermalink ==
    [prefix |-> UrlPrefix, path |-> <<SEG_archives, SEG_channel>>, query |-> None]

NoneStr == [given |-> FALSE, v |-> ""]

ReactionNames == {"thumbsup", "Thumbsup"}
ErrorCodes == {"not_in_channel", "message_not_found"}
UserIdPool == <<"U1", "U2", "U3", "U4">>
UserIds == {UserIdPool[i] : i \in 1..MaxUsers}

\* sequences of distinct users, at most MaxUsers long
UserLists ==
    {us \in SeqsUpTo(UserIds, MaxUsers) :
        \A i, j \in 1..Len(us) : i # j => us[i] # us[j]}

\* reaction entries {name, users}; a message carries one entry per emoji name
Reactions ==
    {rs \in SeqsUpTo([name : ReactionNames, users : UserLists], MaxReactions) :
        \A i, j \in 1..Len(rs) : i # j => rs[i].name # rs[j].name}

\* result["message"]: with or without a "reactions" key (its "text" key,
\* which is only printed, is taken to be there)
Messages ==
    {[fetched |-> TRUE, has_reactions |-> FALSE, reactions |-> <<>>]}
    \cup {[fetched |-> TRUE, has_reactions |-> TRUE, reactions |-> rs] : rs \in Reactions}

\* messages with one reaction entry, named thumbsup, of one user
OneUserMessages ==
    {[fetched |-> TRUE, has_reactions |-> TRUE,
      reactions |-> <<[name |-> "thumbsup", users |-> <<u>>]>>] : u \in UserIds}

\* the outcome of awaiting client.users_info(user=user_id): it raises
\* SlackApiError(error), or returns a response with "ok" and, when ok, the
\* user's handle "name" and a profile whose display_name and real_name may
\* be missing or empty
ApiRaise(e) ==
    [raises |-> TRUE, error |-> e, ok |-> FALSE,
     display_name |-> NoneStr, real_name |-> NoneStr, name |-> ""]
NotOk ==
    [raises |-> FALSE, error |-> "", ok |-> FALSE,
     display_name |-> NoneStr, real_name |-> NoneStr, name |-> ""]
Profile(d, r, n) ==
    [raises |-> FALSE, error |-> "", ok |-> TRUE,
     display_name |-> d, real_name |-> r, name |-> n]

\* every shape of response for user u
UserInfos(u) ==
    {ApiRaise(e) : e \in ErrorCodes} \cup {NotOk}
    \cup {Profile(d, r, n) :
            d \in {NoneStr, Some(""), Some("display-" \o u)},
            r \in {NoneStr, Some(""), Some("real-" \o u)},
            n \in {"", "handle-" \o u}}

\* the responses the whole-program specification draws from
FewUserInfos(u) ==
    {ApiRaise(e) : e \in ErrorCodes} \cup {NotOk}
    \cup {Profile(NoneStr, Some("real-" \o u), "handle-" \o u)}

VARIABLES
    SLACK_TOKEN,  \* os.environ.get("SLACK_BOT_TOKEN"): None or a string
    permalink,    \* the permalink the --url text is built from, if --url is given
    argv,         \* the command line: url, channel, timestamp, reaction
    args,         \* the argparse namespace after parse_args
    pc,           \* where the run stands
    calls,        \* the remote calls issued so far, in order
    message,      \* result["message"] of reactions_get
    user_ids,     \* reaction["users"] of the matched reaction
    user_infos,   \* the response each finished lookup got, by index
    res,          \* gather: (index, name) of the finished lookups, as completed
    returned,     \* the list get_reaction_users returned, if it returned
    slack_error,  \* e.response["error"] of the SlackApiError a call raised, if one did
    raised,       \* the exception get_reaction_users raised, if it raised
    stdout,       \* the lines printed
    stderr        \* the usage error argparse reported

vars == <<SLACK_TOKEN, permalink, argv, args, pc, calls, message, user_ids,
          user_infos, res, returned, slack_error, raised, stdout, stderr>>

NoArgs == [channel |-> None, timestamp |-> None, reaction |-> ""]
NoMessage == [fetched |-> FALSE, has_reactions |-> FALSE, reactions |-> <<>>]
NoException == [type |-> "", fmt |-> "", channel_id |-> <<>>, error |-> ""]
NoUserInfo == [NotOk EXCEPT !.error = "pending"]

\* one printed line: a format string and the values put in it
Line(fmt, channel_id, timestamp, s, n) ==
    [fmt |-> fmt, channel_id |-> channel_id, timestamp |-> timestamp, s |-> s, n |-> n]

\* one remote call
Call(api, channel_id, timestamp, user) ==
    [api |-> api, channel |-> channel_id, timestamp |-> timestamp, user |-> user]

Tokens == {NoneStr, Some(""), Some("xoxb-token")}

\* the state when the process starts: the environment and the command line
InitWith(tokens, urls, channels, timestamps, reactions) ==
    /\ SLACK_TOKEN \in tokens
    /\ permalink \in urls
    /\ \E c \in channels, t \in timestamps, r \in reactions :
          argv = [url |-> IF permalink.given THEN Some(UrlText(permalink.v)) ELSE None,
                  channel |-> c, timestamp |-> t, reaction |-> r]
    /\ args = NoArgs
    /\ pc = "start"
    /\ calls = <<>>
    /\ message = NoMessage
    /\ user_ids = <<>>
    /\ user_infos = <<>>
    /\ res = <<>>
    /\ returned = None
    /\ slack_error = ""
    /\ raised = NoException
    /\ stdout = <<>>
    /\ stderr = <<>>

NoUrl == [given |-> FALSE, v |-> NoPermalink]

Init ==
    InitWith(Tokens,
             {NoUrl, Some(NoPermalink), Some(ThreadPermalink), Some(ShortTsPermalink),
              Some(NoTsPermalink)},
             {None, Some(CH_arg)},
             {None, Some(TS_valid), Some(TS_bad)},
             {NoneStr, Some("thumbsup")})

\* ------------------------------------------------------------ parse_args

\* Python truthiness of an optional string
Truthy(o) == o.given /\ o.v # <<>>
TruthyStr(o) == o.given /\ o.v # ""

\* parser.parse_args(): the error argparse reports for the declared options
\* (a mutually exclusive required group of --url and --channel, a required
\* --reaction), "" when it accepts the command line
argparse_error(av) ==
    IF av.url.given /\ av.channel.given
    THEN "argument -c/--channel: not allowed with argument -u/--url"
    ELSE IF ~av.reaction.given
    THEN "the following arguments are required: -r/--reaction"
    ELSE IF ~av.url.given /\ ~av.channel.given
    THEN "one of the arguments -u/--url -c/--channel is required"
    ELSE ""

ChannelTimestampRequired ==
    "Channel ID and timestamp are required if URL is not specified"

\* a parse_args that forgets the check of --channel and --timestamp
parse_args_no_timestamp_check(av) ==
    LET err == argparse_error(av)
        ns == [channel |-> av.channel, timestamp |-> av.timestamp,
               reaction |-> av.reaction.v]
    IN  IF err # "" THEN [error |-> err, args |-> NoArgs]
        ELSE IF Truthy(av.url)
        THEN LET r == parse_slack_url(av.url.v)
             IN  IF r.ok
                 THEN [error |-> "",
                       args |-> [ns EXCEPT !.channel = Some(r.channel_id),
                                           !.timestamp = Some(r.timestamp)]]
                 ELSE [error |-> r.error, args |-> NoArgs]
        ELSE [error |-> "", args |-> ns]

\* parse_args(): [error, args]; error is the message of parser.error, or ""
parse_args(av) ==
    LET err == argparse_error(av)
        ns == [channel |-> av.channel, timestamp |-> av.timestamp,
               reaction |-> av.reaction.v]
    IN  IF err # "" THEN [error |-> err, args |-> NoArgs]
        ELSE IF Truthy(av.url)
        THEN LET r == parse_slack_url(av.url.v)
             IN  IF r.ok
                 THEN [error |-> "",
                       args |-> [ns EXCEPT !.channel = Some(r.channel_id),
                                           !.timestamp = Some(r.timestamp)]]
                 ELSE [error |-> r.error, args |-> NoArgs]
        ELSE IF ~(Truthy(av.channel) /\ Truthy(av.timestamp))
        THEN [error |-> ChannelTimestampRequired, args |-> NoArgs]
        ELSE [error |-> "", args |-> ns]

\* --------------------------------------------------------- get_user_name

\* a resolver that prefers real_name to display_name
get_user_name_real_first(user_info, user_id) ==
    IF user_info.raises
    THEN [raises |-> TRUE, error |-> user_info.error, name |-> ""]
    ELSE IF user_info.ok
    THEN IF user_info.real_name.given
         THEN [raises |-> FALSE, error |-> "", name |-> user_info.real_name.v]
         ELSE IF user_info.display_name.given
         THEN [raises |-> FALSE, error |-> "", name |-> user_info.display_name.v]
         ELSE [raises |-> FALSE, error |-> "", name |-> user_info.name]
    ELSE [raises |-> FALSE, error |-> "", name |-> user_id]

\* get_user_name, given what the awaited users_info produced:
\* [raises, error, name]
get_user_name(user_info, user_id) ==
    IF user_info.raises
    THEN [raises |-> TRUE, error |-> user_info.error, name |-> ""]
    ELSE IF user_info.ok
    THEN IF user_info.display_name.given
         THEN [raises |-> FALSE, error |-> "", name |-> user_info.display_name.v]
         ELSE IF user_info.real_name.given
         THEN [raises |-> FALSE, error |-> "", name |-> user_info.real_name.v]
         ELSE [raises |-> FALSE, error |-> "", name |-> user_info.name]
    ELSE [raises |-> FALSE, error |-> "", name |-> user_id]

\* ---------------------------------------------------- get_reaction_users

\* the index of the first reaction entry named reaction_name, 0 when the
\* message has no "reactions" key or no entry of that name
RECURSIVE FirstNamed(_, _, _)
FirstNamed(reactions, reaction_name, i) ==
    IF i > Len(reactions) THEN 0
    ELSE IF reactions[i].name = reaction_name THEN i
    ELSE FirstNamed(reactions, reaction_name, i + 1)

\* a search that compares reaction names without regard to case
Lower(name) == IF name = "Thumbsup" THEN "thumbsup" ELSE name
MatchedReactionIgnoreCase(msg, reaction_name) ==
    IF msg.has_reactions
    THEN FirstNamed([k \in 1..Len(msg.reactions) |->
                        [msg.reactions[k] EXCEPT !.name = Lower(@)]],
                    Lower(reaction_name), 1)
    ELSE 0

MatchedReaction(msg, reaction_name) ==
    IF msg.has_reactions THEN FirstNamed(msg.reactions, reaction_name, 1) ELSE 0

\* a gather that returns the results in the order the lookups completed
GatherCompletionOrder(finished) ==
    [k \in 1..Len(finished) |-> finished[k].name]

\* tqdm_asyncio.gather: the results in the order of the awaitables, whatever
\* the order they completed in
GatherResult(finished) ==
    [k \in 1..Len(finished) |->
        (CHOOSE f \in {finished[j] : j \in 1..Len(finished)} : f.i = k).name]

\* except SlackApiError as e: the ValueError raised in its place
NotInChannelFmt ==
    "Not in channel {channel_id}. Please add your Slack App to the channel integrations."
SlackApiErrorFmt == "Slack API error: {error_message}"

\* a handler that reports every error code the same way
ReraiseGeneric(error_message, channel_id) ==
    [type |-> "ValueError", fmt |-> SlackApiErrorFmt,
     channel_id |-> <<>>, error |-> error_message]

ReraiseSlackApiError(error_message, channel_id) ==
    IF error_message = "not_in_channel"
    THEN [type |-> "ValueError", fmt |-> NotInChannelFmt,
          channel_id |-> channel_id, error |-> ""]
    ELSE [type |-> "ValueError", fmt |-> SlackApiErrorFmt,
          channel_id |-> <<>>, error |-> error_message]

\* ------------------------------------------------------------------ main

\* what main prints for the list get_reaction_users returned
Render(users, reaction) ==
    IF users # <<>>
    THEN <<Line("Users who reacted ({len(users)}):", <<>>, <<>>, "", Len(users))>>
         \o [k \in 1..Len(users) |-> Line("- {user}", <<>>, <<>>, users[k], 0)]
    ELSE <<Line("No users found who reacted with :{args.reaction}:", <<>>, <<>>,
                reaction, 0)>>

\* what main prints for an exception: "Error: " followed by its message
ErrorLine(e) == Line("Error: " \o e.fmt, e.channel_id, <<>>, e.error, 0)

\* args = parse_args()
ParseArgs ==
    /\ pc = "start"
    /\ LET r == parse_args(argv)
       IN  IF r.error # ""
           THEN /\ stderr' = <<r.error>>
                /\ pc' = "exited"
                /\ args' = args
           ELSE /\ args' = r.args
                /\ pc' = "parsed"
                /\ stderr' = stderr
    /\ UNCHANGED <<SLACK_TOKEN, permalink, argv, calls, message, user_ids,
                   user_infos, res, returned, slack_error, raised, stdout>>

\* main after parse_args: the credential check, then get_reaction_users up to
\* the await of client.reactions_get
MainStart ==
    /\ pc = "parsed"
    /\ IF ~TruthyStr(SLACK_TOKEN)
       THEN /\ stdout' = Append(stdout,
                    Line("Error: SLACK_BOT_TOKEN environment variable is not set",
                         <<>>, <<>>, "", 0))
            /\ pc' = "returned"
            /\ calls' = calls
       ELSE /\ stdout' = Append(stdout,
                    Line("Fetching reactions for message in channel {channel_id} at timestamp {timestamp}",
                         args.channel.v, args.timestamp.v, "", 0))
            /\ calls' = Append(calls,
                    Call("reactions.get", args.channel.v, args.timestamp.v, ""))
            /\ pc' = "reactions_get"
    /\ UNCHANGED <<SLACK_TOKEN, permalink, argv, args, message, user_ids,
                   user_infos, res, returned, slack_error, raised, stderr>>

\* client.reactions_get raises SlackApiError(error_message)
ReactionsGetRaises(error_message) ==
    /\ pc = "reactions_get"
    /\ slack_error' = error_message
    /\ raised' = ReraiseSlackApiError(error_message, args.channel.v)
    /\ stdout' = Append(stdout, ErrorLine(raised'))
    /\ pc' = "returned"
    /\ UNCHANGED <<SLACK_TOKEN, permalink, argv, args, calls, message, user_ids,
                   user_infos, res, returned, stderr>>

\* client.reactions_get returns msg: the search for the reaction, and either
\* the return of [] or the start of one lookup per user
ReactionsGetReturns(msg) ==
    /\ pc = "reactions_get"
    /\ message' = msg
    /\ LET m == MatchedReaction(msg, args.reaction)
           content == Line("The meessage content: {message['text']}", <<>>, <<>>, "", 0)
       IN  IF m = 0
           THEN /\ returned' = Some(<<>>)
                /\ stdout' = Append(stdout, content) \o Render(<<>>, args.reaction)
                /\ pc' = "returned"
                /\ UNCHANGED <<calls, user_ids, user_infos>>
           ELSE LET ids == msg.reactions[m].users
                    fetching ==
                        Line("Fetching usernames for {len(user_ids)} users who reacted with :{reaction_name}:",
                             <<>>, <<>>, args.reaction, Len(ids))
                IN  /\ user_ids' = ids
                    /\ user_infos' = [k \in 1..Len(ids) |-> NoUserInfo]
                    /\ calls' = calls \o [k \in 1..Len(ids) |->
                                            Call("users.info", <<>>, <<>>, ids[k])]
                    /\ IF ids = <<>>
                       THEN /\ returned' = Some(<<>>)
                            /\ stdout' = stdout \o <<content, fetching>>
                                         \o Render(<<>>, args.reaction)
                            /\ pc' = "returned"
                       ELSE /\ returned' = returned
                            /\ stdout' = stdout \o <<content, fetching>>
                            /\ pc' = "gather"
    /\ UNCHANGED <<SLACK_TOKEN, permalink, argv, args, res, slack_error, raised,
                   stderr>>

\* the lookup of user_ids[i] completes with user_info; gather returns once
\* every lookup has, and raises as soon as one does
UsersInfoCompletes(i, user_info) ==
    /\ pc = "gather"
    /\ i \in 1..Len(user_ids)
    /\ user_infos[i] = NoUserInfo
    /\ user_infos' = [user_infos EXCEPT ![i] = user_info]
    /\ LET r == get_user_name(user_info, user_ids[i])
           finished == Append(res, [i |-> i, name |-> r.name])
       IN  IF r.raises
           THEN /\ slack_error' = r.error
                /\ raised' = ReraiseSlackApiError(r.error, args.channel.v)
                /\ stdout' = Append(stdout, ErrorLine(raised'))
                /\ pc' = "returned"
                /\ UNCHANGED <<res, returned>>
           ELSE /\ res' = finished
                /\ IF Len(finished) = Len(user_ids)
                   THEN /\ returned' = Some(GatherResult(finished))
                        /\ stdout' = stdout \o Render(GatherResult(finished), args.reaction)
                        /\ pc' = "returned"
                   ELSE UNCHANGED <<returned, stdout, pc>>
                /\ UNCHANGED <<slack_error, raised>>
    /\ UNCHANGED <<SLACK_TOKEN, permalink, argv, args, calls, message, user_ids,
                   stderr>>

\* the service answers the reactions_get call, with an error or with one of msgs
ReactionsGetCompletes(msgs) ==
    \/ \E e \in ErrorCodes : ReactionsGetRaises(e)
    \/ \E msg \in msgs : ReactionsGetReturns(msg)

\* the service answers one of the outstanding users_info calls, with one of
\* the responses infos holds for that user
LookupCompletes(infos) ==
    \E i \in 1..Len(user_ids) : \E user_info \in infos[user_ids[i]] :
        UsersInfoCompletes(i, user_info)

Next ==
    \/ ParseArgs
    \/ MainStart
    \/ ReactionsGetCompletes(Messages)
    \/ LookupCompletes([u \in UserIds |-> FewUserInfos(u)])

Spec == Init /\ [][Next]_vars

\* ---- the argument stage alone, over every permalink of the bounded domain

InitUrl ==
    InitWith(Tokens, {Some(pl) : pl \in Permalinks}, {None}, {None},
             {Some("thumbsup")})

NextUrl ==
    \/ ParseArgs
    \/ MainStart

SpecUrl == InitUrl /\ [][NextUrl]_vars

\* ---- one lookup per run, over every shape of profile response

InitResolve ==
    InitWith({Some("xoxb-token")},
             {NoUrl, Some(DocPermalink), Some(ThreadPermalink)},
             {None, Some(CH_arg)}, {Some(TS_valid)}, {Some("thumbsup")})

NextResolve ==
    \/ ParseArgs
    \/ MainStart
    \/ ReactionsGetCompletes(OneUserMessages)
    \/ LookupCompletes([u \in UserIds |-> UserInfos(u)])

SpecResolve == InitResolve /\ [][NextResolve]_vars

\* ------------------------------------------------------------- properties

IsChannelSeg(seg) == StartsWith(seg, "C")
IsTsSeg(seg) == StartsWith(seg, "p")
\* 'p' followed by 16 digits
IsTs16(seg) ==
    /\ Len(seg) = 17
    /\ seg[1] = "p"
    /\ \A i \in 2..17 : seg[i] \in Digits
\* "<first 10 digits>.<last 6 digits>" of a 'p' + 16 digits segment
DottedTs(seg) == SubSeq(seg, 2, 11) \o <<".">> \o SubSeq(seg, 12, 17)
\* 10 digits, '.', 6 digits
WellFormedTs(t) ==
    /\ Len(t) = 17
    /\ \A i \in 1..10 : t[i] \in Digits
    /\ t[11] = "."
    /\ \A i \in 12..17 : t[i] \in Digits

NameLines == SelectSeq(stdout, LAMBDA l : l.fmt = "- {user}")
ErrorLines ==
    SelectSeq(stdout, LAMBDA l : l.fmt \in {"Error: " \o NotInChannelFmt,
                                            "Error: " \o SlackApiErrorFmt})
NoUsersLine(reaction) ==
    Line("No users found who reacted with :{args.reaction}:", <<>>, <<>>, reaction, 0)
TokenErrorLine ==
    Line("Error: SLACK_BOT_TOKEN environment variable is not set", <<>>, <<>>, "", 0)

\* the segments of the permalink before its query string
UrlSegs == permalink.v.prefix \o permalink.v.path

\* C1: once the arguments are parsed, a --url whose path holds a channel
\* segment 'C...' and a timestamp segment 'p' + 16 digits has given
\* args.channel that segment and args.timestamp its digits as
\* "<first 10>.<last 6>", whatever the scheme and host of the URL are.  (Read
\* in the claim's favour: within the path the first such segments are meant.)
C1_ParseYieldsChannelAndTimestamp ==
    (pc # "start" /\ permalink.given) =>
        LET cs == SelectSeq(permalink.v.path, IsChannelSeg)
            ps == SelectSeq(permalink.v.path, IsTsSeg)
        IN  (cs # <<>> /\ ps # <<>> /\ IsTs16(ps[1])) =>
                /\ pc # "exited"
                /\ args.channel = Some(cs[1])
                /\ args.timestamp = Some(DottedTs(ps[1]))

\* C2: every timestamp handed to the reactions_get call is 10 digits, '.',
\* 6 digits.
C2_FetchedTimestampWellFormed ==
    \A k \in 1..Len(calls) :
        calls[k].api = "reactions.get" => WellFormedTs(calls[k].timestamp)

\* C3: every lookup that has completed, whatever the service answered, has
\* handed gather a display string; none has raised to its caller.
C3_ResolveNeverFails ==
    \A i \in 1..Len(user_infos) :
        user_infos[i] # NoUserInfo =>
            /\ \E k \in 1..Len(res) : res[k].i = i
            /\ raised = NoException

C5_AlwaysPrintable ==
    \A k \in 1..Len(res) :
        (user_infos[res[k].i].name # "" \/ user_ids[res[k].i] # "") =>
            res[k].name # ""

\* C6: when get_reaction_users returns for a message with a reaction named
\* args.reaction, the list has one entry per user of the first such reaction
\* and its i-th entry is the name resolved for the i-th user, in whatever
\* order the lookups completed, and that is what main prints; when a lookup
\* raised, nothing is returned and no name is printed.
C6_OrderedCompleteOrNothing ==
    /\ \A m \in 1..Len(message.reactions) :
         ( /\ returned.given
           /\ message.reactions[m].name = args.reaction
           /\ \A j \in 1..(m - 1) : message.reactions[j].name # args.reaction ) =>
             LET ids == message.reactions[m].users
             IN  /\ Len(returned.v) = Len(ids)
                 /\ \A i \in 1..Len(ids) :
                       returned.v[i] = get_user_name(user_infos[i], ids[i]).name
                 /\ Len(NameLines) = Len(ids)
                 /\ \A i \in 1..Len(ids) : NameLines[i].s = returned.v[i]
    /\ (\E i \in 1..Len(user_infos) : user_infos[i].raises) =>
         /\ ~returned.given
         /\ raised # NoException
         /\ pc = "returned"
         /\ NameLines = <<>>

C6_Witness ==
    /\ returned.given
    /\ Len(returned.v) = 2
    /\ Len(res) = 2
    /\ res[1].i = 2
    /\ returned.v[1] = "real-" \o user_ids[1]
    /\ returned.v[2] = user_ids[2]
    /\ returned.v[1] # returned.v[2]
    /\ Len(NameLines) = 2

\* C7: when a remote call failed with not_in_channel, get_reaction_users has
\* raised the "Not in channel" error carrying the channel id it was called
\* with; when it failed with another code, it has raised the "Slack API
\* error" carrying that code; either way nothing is returned and main prints
\* that error and no name.
C7_RemoteErrorsMapped ==
    slack_error # "" =>
        /\ raised.type = "ValueError"
        /\ IF slack_error = "not_in_channel"
           THEN /\ raised.fmt = NotInChannelFmt
                /\ raised.channel_id = calls[1].channel
           ELSE /\ raised.fmt = SlackApiErrorFmt
                /\ raised.error = slack_error
        /\ ~returned.given
        /\ NameLines = <<>>
        /\ stdout[Len(stdout)] = ErrorLine(raised)

C7_Witness ==
    /\ slack_error = "not_in_channel"
    /\ raised.fmt = NotInChannelFmt
    /\ raised.channel_id = SEG_channel
    /\ pc = "returned"

\* C8: when the fetched message has no reactions key, or no entry whose name
\* equals args.reaction exactly, get_reaction_users has returned the empty
\* list, raised nothing and issued no users_info call, and main has printed
\* the "No users found" line and no name line.
C8_NoMatchIsEmptySuccess ==
    ( /\ message.fetched
      /\ \/ ~message.has_reactions
         \/ \A k \in 1..Len(message.reactions) :
                message.reactions[k].name # args.reaction ) =>
        /\ pc = "returned"
        /\ returned = Some(<<>>)
        /\ raised = NoException
        /\ \A k \in 1..Len(calls) : calls[k].api # "users.info"
        /\ stdout[Len(stdout)] = NoUsersLine(args.reaction)
        /\ NameLines = <<>>
        /\ ErrorLines = <<>>

C8_Witness ==
    /\ message.fetched
    /\ message.has_reactions
    /\ Len(message.reactions) = 1
    /\ message.reactions[1].name = "Thumbsup"
    /\ message.reactions[1].users # <<>>
    /\ args.reaction = "thumbsup"
    /\ returned = Some(<<>>)
    /\ pc = "returned"

\* what the command line and the environment are, read off the inputs
UsageError ==
    \/ argv.url.given <=> argv.channel.given
    \/ argv.channel.given /\ ~argv.timestamp.given
    \/ ~argv.reaction.given
InvalidUrl ==
    /\ argv.url.given
    /\ \/ \A k \in 1..Len(UrlSegs) : ~IsChannelSeg(UrlSegs[k])
       \/ \A k \in 1..Len(UrlSegs) : ~IsTsSeg(UrlSegs[k])
ConfigurationError == ~SLACK_TOKEN.given \/ SLACK_TOKEN.v = ""

\* C9: with a usage error or an invalid --url the run never gets past
\* parse_args and ends with the parser's error message; with the credential
\* absent it ends with the credential message; in both cases no remote call
\* is ever issued.
C9_ErrorsBeforeAnyCall ==
    /\ (UsageError \/ InvalidUrl) =>
          /\ pc \in {"start", "exited"}
          /\ calls = <<>>
          /\ stdout = <<>>
          /\ pc = "exited" => Len(stderr) = 1 /\ stderr[1] # ""
    /\ (ConfigurationError /\ ~(UsageError \/ InvalidUrl)) =>
          /\ pc \in {"start", "parsed", "returned"}
          /\ calls = <<>>
          /\ pc = "returned" => stdout = <<TokenErrorLine>>

C9_Witness ==
    /\ pc = "exited"
    /\ argv.channel.given
    /\ ~argv.url.given
    /\ ~argv.timestamp.given
    /\ argv.reaction.given
    /\ ~ConfigurationError
    /\ stderr = <<ChannelTimestampRequired>>
    /\ calls = <<>>

\* C10: a --url that, before its query string, has no segment starting with
\* 'C' or none starting with 'p' is refused with "Invalid Slack message URL
\* format"; and the outcome of parsing a --url (the error, or the channel and
\* timestamp) is what parse_slack_url gives for the same permalink without
\* its query string.
C10_InvalidUrlRefusedQueryIgnored ==
    (pc # "start" /\ Truthy(argv.url)) =>
        /\ InvalidUrl => pc = "exited" /\ stderr = <<InvalidUrlFormat>>
        /\ LET bare == [permalink.v EXCEPT !.query = None]
               r == parse_slack_url(UrlText(bare))
           IN  IF r.ok
               THEN /\ pc # "exited"
                    /\ args.channel = Some(r.channel_id)
                    /\ args.timestamp = Some(r.timestamp)
               ELSE pc = "exited" /\ stderr = <<r.error>>

C10_Witness ==
    /\ pc = "exited"
    /\ stderr = <<InvalidUrlFormat>>
    /\ permalink.v.query = Some(QUERY_path)
    /\ permalink.v.prefix # <<>>
    /\ \E k \in 1..Len(UrlSegs) : IsTs16(UrlSegs[k])
    /\ \A k \in 1..Len(UrlSegs) : ~IsChannelSeg(UrlSegs[k])
====
